---- MODULE Spec2Model ----
(***************************************************************************)
(* Model of mcpclient.py: the MCPClient object (connect_to_server,         *)
(* process_query, chat_loop, cleanup) and main().  Strings the code        *)
(* inspects (script path, input line, JSON argument blob) are sequences of *)
(* characters or tokens; strings it only passes along are atoms.           *)
(***************************************************************************)
EXTENDS Integers, Sequences, FiniteSets, TLC

VARIABLES
    pc,              \* position of the single thread of control
    argv,            \* sys.argv[1:], a sequence of script paths
    apiKey,          \* os.getenv("OPENAI_API_KEY")
    constructed,     \* MCPClient() returned (main, line 144)
    exitStack,       \* self.exit_stack: contexts entered, in order
    subprocess,      \* the tool host spawned by stdio_client
    session,         \* self.session: "None", "entered", "initialized", "closed"
    chatEntered,     \* chat_loop has been called
    line,            \* value returned by the last input()
    messages,        \* local list `messages` of process_query
    available_tools, \* local `available_tools` of process_query
    firstChoice,     \* local `content` (response.choices[0]) of process_query
    tool_call,       \* local `tool_call`
    tool_args,       \* local `tool_args`
    result,          \* local `result` of call_tool
    toolReply,       \* what the tool host answered to the last call_tool
    secondChoice,    \* response.choices[0] of the second completion (line 113)
    lastOutcome,     \* what chat_loop printed last in this iteration
    llmLog,          \* chat.completions.create calls of the current iteration
    sessLog,         \* session requests of the current iteration
    connLog,         \* session requests made by connect_to_server
    hist,            \* every message appended by earlier process_query calls
    turn,            \* number of process_query calls started
    failedTurns,     \* number of iterations that ended in the except clause
    cleanupCalls,    \* number of calls of client.cleanup()
    exitPath         \* how the run left main's try block

vars == <<pc, argv, apiKey, constructed, exitStack, subprocess, session,
          chatEntered, line, messages, available_tools, firstChoice,
          tool_call, tool_args, result, toolReply, secondChoice,
          lastOutcome, llmLog, sessLog, connLog, hist, turn, failedTurns, cleanupCalls, exitPath>>

-----------------------------------------------------------------------------
(* Bounds *)

MaxTurns == 2

-----------------------------------------------------------------------------
(* Character-level string operations *)

SetMin(S) == CHOOSE x \in S : \A y \in S : x <= y

SetMax(S) == CHOOSE x \in S : \A y \in S : x >= y

IsWhitespace(c) == c \in {" ", "\t"}

\* str.strip(): drop leading and trailing whitespace
Strip(s) ==
    LET keep == {i \in 1..Len(s) : ~IsWhitespace(s[i])}
    IN  IF keep = {} THEN <<>> ELSE SubSeq(s, SetMin(keep), SetMax(keep))

LowerChar(c) ==
    CASE c = "Q" -> "q"
      [] c = "U" -> "u"
      [] c = "I" -> "i"
      [] c = "T" -> "t"
      [] c = "H" -> "h"
      [] c = "P" -> "p"
      [] c = "Y" -> "y"
      [] OTHER   -> c

\* str.lower()
Lower(s) == [i \in 1..Len(s) |-> LowerChar(s[i])]

EndsWith_contains(s, suffix) ==
    \E i \in 1..Len(s) :
        /\ i + Len(suffix) - 1 <= Len(s)
        /\ SubSeq(s, i, i + Len(suffix) - 1) = suffix

\* str.endswith(suffix)
EndsWith(s, suffix) ==
    /\ Len(s) >= Len(suffix)
    /\ SubSeq(s, Len(s) - Len(suffix) + 1, Len(s)) = suffix

QuitWord == <<"q", "u", "i", "t">>

IsQuit_nolower(query) == query = QuitWord

\* chat_loop line 127: query.lower() == 'quit'
IsQuit(query) == Lower(query) = QuitWord

-----------------------------------------------------------------------------
(* json.loads on the argument blob, a sequence of JSON tokens *)

JsonOpen == "{"

JsonClose == "}"

JsonColon == ":"

JsonComma == ","

JsonPunct == {JsonOpen, JsonClose, JsonColon, JsonComma}

\* insignificant whitespace between tokens is skipped
JsonTokens(blob) == SelectSeq(blob, LAMBDA t : ~IsWhitespace(t))

\* the members between the braces: key : value (, key : value)*
JsonMembersOk(inner) ==
    /\ Len(inner) % 4 = 3
    /\ \A i \in 1..Len(inner) :
         CASE i % 4 = 1 -> inner[i] \notin JsonPunct
           [] i % 4 = 2 -> inner[i] = JsonColon
           [] i % 4 = 3 -> inner[i] \notin JsonPunct
           [] OTHER     -> inner[i] = JsonComma

JsonIsObject(toks) ==
    /\ Len(toks) >= 2
    /\ toks[1] = JsonOpen
    /\ toks[Len(toks)] = JsonClose
    /\ LET inner == SubSeq(toks, 2, Len(toks) - 1)
       IN  inner = <<>> \/ JsonMembersOk(inner)

JsonIsScalar(toks) == Len(toks) = 1 /\ toks[1] \notin JsonPunct

\* the dict of an object: for a repeated key the last member wins
JsonObject(toks) ==
    LET inner == SubSeq(toks, 2, Len(toks) - 1)
        keyAt == {i \in 1..Len(inner) : i % 4 = 1}
    IN  {<<inner[i], inner[i + 2]>> : i \in
            {k \in keyAt : \A j \in keyAt : j > k => inner[j] # inner[k]}}

JsonLoads_lenient(blob) ==
    [ok |-> TRUE, value |-> {}]

\* process_query line 98: json.loads(tool_call.function.arguments);
\* ok = FALSE stands for json.JSONDecodeError
JsonLoads(blob) ==
    LET toks == JsonTokens(blob)
    IN  IF JsonIsObject(toks)
        THEN [ok |-> TRUE, value |-> JsonObject(toks)]
        ELSE IF JsonIsScalar(toks)
        THEN [ok |-> TRUE, value |-> {<<"scalar", toks[1]>>}]
        ELSE [ok |-> FALSE, value |-> {}]

-----------------------------------------------------------------------------
(* Data the environment can supply *)

None == "None"

PyScript == <<"s", ".", "p", "y">>

JsScript == <<"s", ".", "j", "s">>

ScriptPaths ==
    { PyScript, JsScript,
      <<"s", ".", "t", "x", "t">>,
      <<"s", ".", "P", "Y">>,
      <<"s", ".", "p", "y", "c">>,
      <<"p", "y">>,
      <<"s", ".", "j", "s", ".", "b">> }

ArgLists == {<<>>} \cup {<<p>> : p \in ScriptPaths}

ApiKeys == {None, "", "sk-1"}

InputLines ==
    { <<"q", "u", "i", "t">>,
      <<"Q", "U", "I", "T">>,
      <<" ", "Q", "u", "i", "t", "\t">>,
      <<"q", "u", "i", "t", " ", "x">>,
      <<"\t">> }

GoodBlob == <<"{", "\"path\"", ":", "\"/tmp\"", "}">>

SpacedBlob == <<" ", "{", " ", "}", " ">>

BadBlob == <<"{", "\"path\"", ":">>

NoFunction == [name |-> None, arguments |-> <<>>]

NoToolCall == [id |-> None, function |-> NoFunction]

ToolCallA == [id |-> "call_1", function |-> [name |-> "list_dir", arguments |-> GoodBlob]]

ToolCallB == [id |-> "call_2", function |-> [name |-> "read_file", arguments |-> SpacedBlob]]

ToolCallBad == [id |-> "call_3", function |-> [name |-> "list_dir", arguments |-> BadBlob]]

\* message.tool_calls of a completion; <<>> stands for None or an empty list
ToolCallLists == { <<>>, <<ToolCallA>>, <<ToolCallB, ToolCallA>>, <<ToolCallBad>> }

\* Python None where a text is expected
NoText == <<None>>

Contents == {NoText, <<"4">>}

FinishReasons == {"stop", "tool_calls"}

\* response.choices[0] of a chat completion
Choices ==
    [finish_reason : FinishReasons,
     message : [role : {"assistant"}, content : Contents,
                tool_calls : ToolCallLists, tool_call_id : {None}]]

\* completions offered for the second call, of which only the content is read
SecondChoices ==
    {c \in Choices : c.message.tool_calls \in {<<>>, <<ToolCallA>>}}

NoMessage == [role |-> None, content |-> NoText, tool_calls |-> <<>>, tool_call_id |-> None]

NoChoice == [finish_reason |-> None, message |-> NoMessage]

ToolA == [name |-> "list_dir", description |-> "list a directory", inputSchema |-> "schemaA"]

\* response.tools of list_tools
Catalogs == { <<>>, <<ToolA>> }

\* outcomes of session.call_tool: a result with its content items, or a raise
NoResult == [raised |-> FALSE, content |-> <<>>]

FilesText == <<"a", ",", "b">>

ErrorText == <<"e", "r", "r">>

\* content is the sequence of content items, each reduced to its text
CallToolOutcomes ==
    { [raised |-> FALSE, content |-> <<FilesText, <<"x">>>>],
      [raised |-> FALSE, content |-> <<>>],
      [raised |-> TRUE, content |-> <<ErrorText>>] }

-----------------------------------------------------------------------------
(* Pure pieces of the code *)

MinArgc == 2

PyExt == <<".", "p", "y">>

JsExt == <<".", "j", "s">>

KeyMissing_unchecked(key) == FALSE

\* __init__ line 28: not self.openai_api_key
KeyMissing(key) == key = None \/ key = ""

\* connect_to_server lines 38-44; None stands for the ValueError of line 41
SelectCommand(path) ==
    LET is_python == EndsWith(path, PyExt)
        is_js     == EndsWith(path, JsExt)
    IN  IF ~(is_python \/ is_js) THEN None
        ELSE IF is_python THEN "python" ELSE "node"

\* process_query line 71
UserMessage(query) ==
    [role |-> "user", content |-> query, tool_calls |-> <<>>, tool_call_id |-> None]

\* process_query lines 75-82
Adapter(tools) ==
    [i \in 1..Len(tools) |->
        [type |-> "function",
         function |-> [name |-> tools[i].name,
                       description |-> tools[i].description,
                       input_schema |-> tools[i].inputSchema]]]

RequestsTool_anycalls(choice) == choice.message.tool_calls # <<>>

\* process_query line 94
RequestsTool(choice) == choice.finish_reason = "tool_calls"

FirstToolCall_last(choice) ==
    choice.message.tool_calls[Len(choice.message.tool_calls)]

\* process_query line 96: content.message.tool_calls[0]
FirstToolCall(choice) == choice.message.tool_calls[1]

\* process_query line 105: content.message.model_dump()
ModelDump(message) ==
    [role |-> message.role, content |-> message.content,
     tool_calls |-> message.tool_calls, tool_call_id |-> None]

ToolMessage_nameid(res, tc) ==
    [role |-> "tool", content |-> res.content[1], tool_calls |-> <<>>,
     tool_call_id |-> tc.function.name]

\* process_query lines 106-110
ToolMessage(res, tc) ==
    [role |-> "tool", content |-> res.content[1], tool_calls |-> <<>>,
     tool_call_id |-> tc.id]

AppendToolResult_reset(msgs, assistant, toolmsg) == <<assistant, toolmsg>>

AppendToolResult_swapped(msgs, assistant, toolmsg) ==
    Append(Append(msgs, toolmsg), assistant)

\* process_query lines 105-110: the two appends
AppendToolResult(msgs, assistant, toolmsg) == Append(Append(msgs, assistant), toolmsg)

CallToolRaises_swallowed(out) == FALSE

\* process_query line 101: an error of call_tool propagates
CallToolRaises(out) == out.raised

SecondCallNext_loop(choice) ==
    IF RequestsTool(choice) /\ choice.message.tool_calls # <<>>
    THEN "pq_call_tool" ELSE "chat"

SecondCallNext_again(choice) ==
    IF RequestsTool(choice) THEN "pq_second_llm" ELSE "chat"

\* process_query line 117: return to chat_loop whatever the second response is
SecondCallNext(choice) == "chat"

IsException_narrow(type) == type \in {"McpError", "APIError"}

IsException_noeof(type) == type \notin {"KeyboardInterrupt", "EOFError"}

\* chat_loop line 131: except Exception
IsException(type) == type \notin {"KeyboardInterrupt"}

MainExit_nofinally(reason) == IF reason = "quit" THEN "cleanup" ELSE "exited"

\* main lines 145-149: every way out of the try block runs the finally clause
MainExit(reason) == "cleanup"

-----------------------------------------------------------------------------
(* State *)

NoOutcome == [kind |-> "none", value |-> NoText, exc |-> None]

ListToolsRequest == [op |-> "list_tools", name |-> None, args |-> {}]

CallToolRequest(name, args) == [op |-> "call_tool", name |-> name, args |-> args]

NoSubprocess == [state |-> "none", command |-> None, args |-> <<>>]

connVars == <<constructed, exitStack, subprocess, session, chatEntered, connLog>>

localVars == <<messages, available_tools, firstChoice, tool_call, tool_args,
               result, toolReply, secondChoice>>

Init ==
    /\ pc = "main"
    /\ argv \in ArgLists
    /\ apiKey \in ApiKeys
    /\ constructed = FALSE
    /\ exitStack = <<>>
    /\ subprocess = NoSubprocess
    /\ session = None
    /\ chatEntered = FALSE
    /\ line = <<>>
    /\ messages = <<>>
    /\ available_tools = <<>>
    /\ firstChoice = NoChoice
    /\ tool_call = NoToolCall
    /\ tool_args = {}
    /\ result = NoResult
    /\ toolReply = NoResult
    /\ secondChoice = NoChoice
    /\ lastOutcome = NoOutcome
    /\ llmLog = <<>>
    /\ sessLog = <<>>
    /\ connLog = <<>>
    /\ hist = <<>>
    /\ turn = 0
    /\ failedTurns = 0
    /\ cleanupCalls = 0
    /\ exitPath = None

-----------------------------------------------------------------------------
(* main and connect_to_server *)

\* main lines 140-144 with MCPClient.__init__ lines 16-33
Main ==
    /\ pc = "main"
    /\ IF Len(argv) + 1 < MinArgc
       THEN /\ pc' = "exited"
            /\ exitPath' = "usage"
            /\ constructed' = FALSE
       ELSE IF KeyMissing(apiKey)
       THEN /\ pc' = "exited"
            /\ exitPath' = "config_error"
            /\ constructed' = FALSE
       ELSE /\ pc' = "connect"
            /\ exitPath' = exitPath
            /\ constructed' = TRUE
    /\ UNCHANGED <<argv, apiKey, exitStack, subprocess, session, chatEntered,
                   connLog, line, localVars, lastOutcome, llmLog, sessLog,
                   hist, turn, failedTurns, cleanupCalls>>

ConnectFails_swallowed(reason) ==
    IF reason = "handshake_failed"
    THEN /\ pc' = "connect_list_tools"
         /\ exitPath' = exitPath
    ELSE /\ pc' = MainExit(reason)
         /\ exitPath' = reason

\* an exception leaves connect_to_server and main's try block
ConnectFails(reason) ==
    /\ pc' = MainExit(reason)
    /\ exitPath' = reason

\* connect_to_server lines 38-56: extension check, then stdio_client
ConnectSpawn ==
    /\ pc = "connect"
    /\ LET command == SelectCommand(argv[1])
       IN  IF command = None
           THEN /\ ConnectFails("unsupported")
                /\ UNCHANGED <<subprocess, exitStack>>
           ELSE \E ok \in BOOLEAN :
                  IF ok
                  THEN /\ subprocess' = [state |-> "live", command |-> command,
                                         args |-> <<argv[1]>>]
                       /\ exitStack' = Append(exitStack, "stdio")
                       /\ pc' = "enter_session"
                       /\ exitPath' = exitPath
                  ELSE /\ ConnectFails("spawn_failed")
                       /\ UNCHANGED <<subprocess, exitStack>>
    /\ UNCHANGED <<argv, apiKey, constructed, session, chatEntered, connLog,
                   line, localVars, lastOutcome, llmLog, sessLog, hist, turn,
                   failedTurns, cleanupCalls>>

\* connect_to_server lines 57-59: ClientSession entered on the exit stack
ConnectSession ==
    /\ pc = "enter_session"
    /\ \E ok \in BOOLEAN :
         IF ok
         THEN /\ session' = "entered"
              /\ exitStack' = Append(exitStack, "session")
              /\ pc' = "initialize"
              /\ exitPath' = exitPath
         ELSE /\ ConnectFails("session_failed")
              /\ UNCHANGED <<session, exitStack>>
    /\ UNCHANGED <<argv, apiKey, constructed, subprocess, chatEntered, connLog,
                   line, localVars, lastOutcome, llmLog, sessLog, hist, turn,
                   failedTurns, cleanupCalls>>

\* connect_to_server line 60: the initialize handshake
ConnectInitialize ==
    /\ pc = "initialize"
    /\ \E ok \in BOOLEAN :
         IF ok
         THEN /\ session' = "initialized"
              /\ pc' = "connect_list_tools"
              /\ exitPath' = exitPath
         ELSE /\ ConnectFails("handshake_failed")
              /\ UNCHANGED session
    /\ UNCHANGED <<argv, apiKey, constructed, exitStack, subprocess,
                   chatEntered, connLog, line, localVars, lastOutcome, llmLog,
                   sessLog, hist, turn, failedTurns, cleanupCalls>>

\* connect_to_server lines 63-65, then main line 147 calls chat_loop
ConnectListTools ==
    /\ pc = "connect_list_tools"
    /\ connLog' = Append(connLog, ListToolsRequest)
    /\ \E ok \in BOOLEAN :
         IF ok
         THEN /\ pc' = "chat"
              /\ chatEntered' = TRUE
              /\ exitPath' = exitPath
         ELSE /\ ConnectFails("list_failed")
              /\ UNCHANGED chatEntered
    /\ UNCHANGED <<argv, apiKey, constructed, exitStack, subprocess, session,
                   line, localVars, lastOutcome, llmLog, sessLog, hist, turn,
                   failedTurns, cleanupCalls>>

\* main line 149 with cleanup lines 134-136: aclose unwinds the exit stack
Cleanup ==
    /\ pc = "cleanup"
    /\ cleanupCalls' = cleanupCalls + 1
    /\ session' = IF \E i \in DOMAIN exitStack : exitStack[i] = "session"
                  THEN "closed" ELSE session
    /\ subprocess' = IF \E i \in DOMAIN exitStack : exitStack[i] = "stdio"
                     THEN [subprocess EXCEPT !.state = "terminated"]
                     ELSE subprocess
    /\ exitStack' = <<>>
    /\ pc' = "exited"
    /\ UNCHANGED <<argv, apiKey, constructed, chatEntered, connLog, line,
                   localVars, lastOutcome, llmLog, sessLog, hist, turn,
                   failedTurns, exitPath>>

-----------------------------------------------------------------------------
(* chat_loop and process_query *)

\* chat_loop lines 131-132: an Exception is printed and the loop goes on;
\* anything else leaves chat_loop and main's try block (exitPath names it)
Raise(type, inQuery) ==
    IF IsException(type)
    THEN /\ pc' = "chat"
         /\ lastOutcome' = [kind |-> "error", value |-> NoText, exc |-> type]
         /\ failedTurns' = IF inQuery THEN failedTurns + 1 ELSE failedTurns
         /\ exitPath' = exitPath
    ELSE /\ pc' = MainExit("escaped")
         /\ exitPath' = type
         /\ UNCHANGED <<lastOutcome, failedTurns>>

\* chat_loop line 130: the answer is printed
Answer(value) == [kind |-> "answer", value |-> value, exc |-> None]

\* a new iteration of the while loop: the frame of the previous
\* process_query call is gone, its messages are remembered in hist
NewIteration ==
    /\ llmLog' = <<>>
    /\ sessLog' = <<>>
    /\ hist' = hist \o messages
    /\ available_tools' = <<>>
    /\ firstChoice' = NoChoice
    /\ tool_call' = NoToolCall
    /\ tool_args' = {}
    /\ result' = NoResult
    /\ toolReply' = NoResult
    /\ secondChoice' = NoChoice

\* chat_loop lines 124-129 and process_query line 71
ReadInput ==
    /\ pc = "chat"
    /\ NewIteration
    /\ \/ \E l \in InputLines :
            LET query == Strip(l)
            IN  /\ line' = l
                /\ lastOutcome' = NoOutcome
                /\ IF IsQuit(query)
                   THEN /\ pc' = MainExit("quit")
                        /\ exitPath' = "quit"
                        /\ messages' = <<>>
                        /\ UNCHANGED turn
                   ELSE /\ turn < MaxTurns
                        /\ turn' = turn + 1
                        /\ messages' = <<UserMessage(query)>>
                        /\ pc' = "pq_list_tools"
                        /\ exitPath' = exitPath
                /\ UNCHANGED failedTurns
       \/ /\ Raise("EOFError", FALSE)
          /\ messages' = <<>>
          /\ UNCHANGED <<line, turn>>
    /\ UNCHANGED <<argv, apiKey, connVars, cleanupCalls>>

\* process_query lines 74-82
PQListTools ==
    /\ pc = "pq_list_tools"
    /\ sessLog' = Append(sessLog, ListToolsRequest)
    /\ \/ \E tools \in Catalogs :
            /\ available_tools' = Adapter(tools)
            /\ pc' = "pq_first_llm"
            /\ UNCHANGED <<lastOutcome, failedTurns, exitPath>>
       \/ /\ Raise("McpError", TRUE)
          /\ UNCHANGED available_tools
    /\ UNCHANGED <<argv, apiKey, connVars, line, messages, firstChoice,
                   tool_call, tool_args, result, toolReply, secondChoice,
                   llmLog, hist, turn, cleanupCalls>>

\* process_query lines 85-98 and 119
PQFirstLLM ==
    /\ pc = "pq_first_llm"
    /\ llmLog' = Append(llmLog, [messages |-> messages, withTools |-> TRUE,
                                 tools |-> available_tools])
    /\ \/ \E choice \in Choices :
            /\ firstChoice' = choice
            /\ IF RequestsTool(choice)
               THEN IF choice.message.tool_calls = <<>>
                    THEN /\ Raise("TypeError", TRUE)
                         /\ UNCHANGED <<tool_call, tool_args>>
                    ELSE LET tc     == FirstToolCall(choice)
                             parsed == JsonLoads(tc.function.arguments)
                         IN  /\ tool_call' = tc
                             /\ IF parsed.ok
                                THEN /\ tool_args' = parsed.value
                                     /\ pc' = "pq_call_tool"
                                     /\ UNCHANGED <<lastOutcome, failedTurns,
                                                    exitPath>>
                                ELSE /\ Raise("JSONDecodeError", TRUE)
                                     /\ UNCHANGED tool_args
               ELSE /\ lastOutcome' = Answer(choice.message.content)
                    /\ pc' = "chat"
                    /\ UNCHANGED <<tool_call, tool_args, failedTurns, exitPath>>
       \/ /\ Raise("APIError", TRUE)
          /\ UNCHANGED <<firstChoice, tool_call, tool_args>>
    /\ UNCHANGED <<argv, apiKey, connVars, line, messages, available_tools,
                   result, toolReply, secondChoice, sessLog, hist, turn,
                   cleanupCalls>>

\* process_query lines 101-110
PQCallTool ==
    /\ pc = "pq_call_tool"
    /\ sessLog' = Append(sessLog, CallToolRequest(tool_call.function.name, tool_args))
    /\ \E out \in CallToolOutcomes :
         /\ toolReply' = out
         /\ IF CallToolRaises(out)
            THEN /\ Raise("McpError", TRUE)
                 /\ UNCHANGED <<result, messages>>
            ELSE /\ result' = out
                 /\ IF out.content = <<>>
                    THEN /\ messages' = Append(messages, ModelDump(firstChoice.message))
                         /\ Raise("IndexError", TRUE)
                    ELSE /\ messages' = AppendToolResult(messages,
                                            ModelDump(firstChoice.message),
                                            ToolMessage(out, tool_call))
                         /\ pc' = "pq_second_llm"
                         /\ UNCHANGED <<lastOutcome, failedTurns, exitPath>>
    /\ UNCHANGED <<argv, apiKey, connVars, line, available_tools, firstChoice,
                   tool_call, tool_args, secondChoice, llmLog, hist, turn,
                   cleanupCalls>>

\* process_query lines 113-117
PQSecondLLM ==
    /\ pc = "pq_second_llm"
    /\ llmLog' = Append(llmLog, [messages |-> messages, withTools |-> FALSE,
                                 tools |-> <<>>])
    /\ \/ \E choice \in SecondChoices :
            /\ secondChoice' = choice
            /\ lastOutcome' = Answer(choice.message.content)
            /\ pc' = SecondCallNext(choice)
            /\ UNCHANGED <<failedTurns, exitPath>>
       \/ /\ Raise("APIError", TRUE)
          /\ UNCHANGED secondChoice
    /\ UNCHANGED <<argv, apiKey, connVars, line, messages, available_tools,
                   firstChoice, tool_call, tool_args, result, toolReply,
                   sessLog, hist, turn, cleanupCalls>>

LoopStates == {"chat", "pq_list_tools", "pq_first_llm", "pq_call_tool", "pq_second_llm"}

\* chat_loop line 131 does not catch BaseException: an interrupt raised at
\* input() or at one of the calls of process_query leaves chat_loop
Interrupt ==
    /\ pc \in LoopStates
    /\ Raise("KeyboardInterrupt", FALSE)
    /\ UNCHANGED <<argv, apiKey, connVars, line, localVars, llmLog, sessLog,
                   hist, turn, cleanupCalls>>

-----------------------------------------------------------------------------

Next ==
    \/ Main
    \/ ConnectSpawn
    \/ ConnectSession
    \/ ConnectInitialize
    \/ ConnectListTools
    \/ ReadInput
    \/ PQListTools
    \/ PQFirstLLM
    \/ PQCallTool
    \/ PQSecondLLM
    \/ Interrupt
    \/ Cleanup

Spec == Init /\ [][Next]_vars

-----------------------------------------------------------------------------
(* Properties *)

CallToolCount == Cardinality({i \in DOMAIN sessLog : sessLog[i].op = "call_tool"})

\* C1: a query whose first completion requests a tool call and whose parse,
\* tool call and second LLM call all succeed makes exactly two LLM calls and
\* one call_tool, and the second call's messages hold a tool-role message
\* with the tool's result text and the id of the first tool-call entry
C1_ToolTurn ==
    (lastOutcome.kind = "answer" /\ firstChoice.finish_reason = "tool_calls") =>
        /\ Len(llmLog) = 2
        /\ CallToolCount = 1
        /\ \E i \in DOMAIN llmLog[2].messages :
             LET m == llmLog[2].messages[i]
             IN  /\ m.role = "tool"
                 /\ m.content = toolReply.content[1]
                 /\ m.tool_call_id = firstChoice.message.tool_calls[1].id

C1_Witness ==
    /\ lastOutcome.kind = "answer"
    /\ firstChoice.finish_reason = "tool_calls"
    /\ Len(firstChoice.message.tool_calls) = 2
    /\ Len(llmLog) = 2
    /\ toolReply.content[1] = FilesText

\* C2: a query whose first completion does not signal a tool call makes
\* exactly one LLM call and no call_tool, and returns that completion's
\* text content as it is
C2_PlainTurn ==
    (firstChoice.finish_reason = "stop") =>
        /\ Len(llmLog) = 1
        /\ CallToolCount = 0
        /\ lastOutcome.kind = "answer"
        /\ lastOutcome.value = firstChoice.message.content

C2_Witness ==
    /\ firstChoice.finish_reason = "stop"
    /\ firstChoice.message.tool_calls # <<>>
    /\ lastOutcome = Answer(<<"4">>)
    /\ pc = "chat"

\* C3 as stated: at most one request is sent over the session during a
\* query, list-tools and call-tool requests alike
C3_Original == Len(sessLog) <= 1

\* C3: a query sends at most two requests over the session: one list-tools
\* request first, then at most one call-tool request, and that one only
\* when the first completion requested a tool call
C3_RoundTrips ==
    /\ Len(sessLog) <= 2
    /\ Len(sessLog) >= 1 => sessLog[1].op = "list_tools"
    /\ Len(sessLog) = 2 =>
         /\ sessLog[2].op = "call_tool"
         /\ firstChoice.finish_reason = "tool_calls"
    /\ llmLog # <<>> => Len(sessLog) >= 1

C3_Witness ==
    /\ Len(sessLog) = 2
    /\ Len(llmLog) = 2
    /\ lastOutcome.kind = "answer"
    /\ pc = "chat"

IsPrefix(a, b) == Len(a) <= Len(b) /\ SubSeq(b, 1, Len(a)) = a

C5_CleanupOnce ==
    /\ cleanupCalls <= 1
    /\ (pc = "exited" /\ constructed) =>
         /\ cleanupCalls = 1
         /\ exitStack = <<>>
         /\ subprocess.state \in {"none", "terminated"}
         /\ session \in {None, "closed"}
    /\ (pc = "exited" /\ ~constructed) => cleanupCalls = 0

C5_Witness ==
    /\ pc = "exited"
    /\ exitPath = "handshake_failed"
    /\ cleanupCalls = 1
    /\ subprocess.state = "terminated"
    /\ session = "closed"

QuitLines ==
    { <<"q", "u", "i", "t">>,
      <<"Q", "U", "I", "T">>,
      <<" ", "Q", "u", "i", "t", "\t">> }

\* C6: when the input, trimmed and compared without regard to case, is the
\* word quit, chat_loop ends without calling process_query for it (no LLM
\* call, no session request) and the next thing that happens is the single
\* call of cleanup
C6_Quit ==
    line \in QuitLines =>
        /\ exitPath = "quit"
        /\ llmLog = <<>>
        /\ sessLog = <<>>
        /\ messages = <<>>
        /\ \/ pc = "cleanup" /\ cleanupCalls = 0
           \/ pc = "exited" /\ cleanupCalls = 1

C6_Witness ==
    /\ line = <<" ", "Q", "u", "i", "t", "\t">>
    /\ turn = 1
    /\ pc = "exited"
    /\ cleanupCalls = 1

QueryStates == {"pq_list_tools", "pq_first_llm", "pq_call_tool", "pq_second_llm"}

\* C7: a step that ends a process_query call either prints the answer or,
\* for any error of the turn, prints the error; in both cases the loop is
\* back at reading input, the process has not left chat_loop and cleanup
\* has not been called (only an interrupt leaves chat_loop from a query)
C7_TurnErrorsCaught ==
    [][ (pc \in QueryStates /\ pc' \notin QueryStates) =>
          \/ /\ pc' = "chat"
             /\ lastOutcome'.kind \in {"answer", "error"}
             /\ lastOutcome'.kind = "error" => failedTurns' = failedTurns + 1
             /\ cleanupCalls' = 0
             /\ exitPath' = None
          \/ /\ exitPath' = "KeyboardInterrupt"
             /\ lastOutcome' = lastOutcome ]_vars

C7_Witness ==
    /\ turn = 2
    /\ failedTurns = 1
    /\ lastOutcome.kind = "answer"
    /\ pc = "chat"
    /\ cleanupCalls = 0

HasSuffix3(p, a, b, c) ==
    Len(p) >= 3 /\ p[Len(p) - 2] = a /\ p[Len(p) - 1] = b /\ p[Len(p)] = c

\* C9: a path ending in .py is spawned with python, one ending in .js with
\* node, each with the path as the sole argument; for any other path
\* connect fails as unsupported before a subprocess is spawned or a
\* session is created
C9_Interpreter ==
    pc \notin {"main", "connect"} /\ constructed =>
        LET p == argv[1]
        IN  IF HasSuffix3(p, ".", "p", "y") \/ HasSuffix3(p, ".", "j", "s")
            THEN /\ exitPath # "unsupported"
                 /\ subprocess.state # "none" =>
                      /\ subprocess.command =
                           (IF HasSuffix3(p, ".", "p", "y") THEN "python" ELSE "node")
                      /\ subprocess.args = <<p>>
            ELSE /\ exitPath = "unsupported"
                 /\ subprocess = NoSubprocess
                 /\ session = None
                 /\ connLog = <<>>

C9_Witness ==
    /\ argv = <<JsScript>>
    /\ subprocess.state = "live"
    /\ subprocess.command = "node"
    /\ session = "initialized"

ConnectFailures ==
    {"unsupported", "spawn_failed", "session_failed", "handshake_failed", "list_failed"}

\* C10: with the API key missing the run ends before any connection
\* attempt (nothing is spawned), and when connect fails chat_loop is never
\* entered, no input is read and no LLM call is made
C10_StartupFatal ==
    /\ (Len(argv) >= 1 /\ apiKey \in {None, ""}) =>
         /\ pc \in {"main", "exited"}
         /\ subprocess = NoSubprocess
         /\ session = None
         /\ connLog = <<>>
         /\ pc = "exited" => exitPath = "config_error"
    /\ exitPath \in ConnectFailures \cup {"config_error", "usage"} =>
         /\ ~chatEntered
         /\ turn = 0
         /\ llmLog = <<>>
         /\ lastOutcome = NoOutcome
         /\ pc \in {"cleanup", "exited"}

C10_Witness ==
    /\ apiKey = ""
    /\ argv = <<PyScript>>
    /\ pc = "exited"
    /\ exitPath = "config_error"

\* what json.loads gives for the well-formed argument blobs
ExpectedArgs(blob) ==
    IF blob = GoodBlob THEN {<<"\"path\"", "\"/tmp\"">>} ELSE {}

ToolMessagesOf(msgs) == {i \in DOMAIN msgs : msgs[i].role = "tool"}

\* C11: when the first completion carries several tool-call entries, at
\* most one call_tool is made in the turn (exactly one once the turn is
\* answered), with the name and the parsed arguments of the first entry,
\* and the only tool message carries the first entry's id
C11_FirstEntryOnly ==
    (firstChoice.finish_reason = "tool_calls"
        /\ Len(firstChoice.message.tool_calls) >= 2) =>
        LET first == firstChoice.message.tool_calls[1]
        IN  /\ CallToolCount <= 1
            /\ pc \in {"pq_call_tool", "pq_second_llm"} =>
                 /\ tool_call = first
                 /\ tool_args = ExpectedArgs(first.function.arguments)
            /\ \A i \in DOMAIN sessLog :
                 sessLog[i].op = "call_tool" =>
                    /\ sessLog[i].name = first.function.name
                    /\ sessLog[i].args = ExpectedArgs(first.function.arguments)
            /\ Cardinality(ToolMessagesOf(messages)) <= 1
            /\ \A i \in ToolMessagesOf(messages) :
                 messages[i].tool_call_id = first.id
            /\ lastOutcome.kind = "answer" =>
                 /\ CallToolCount = 1
                 /\ Cardinality(ToolMessagesOf(messages)) = 1

C11_Witness ==
    /\ firstChoice.finish_reason = "tool_calls"
    /\ firstChoice.message.tool_calls = <<ToolCallB, ToolCallA>>
    /\ lastOutcome.kind = "answer"
    /\ Len(sessLog) = 2
    /\ Len(messages) = 3
    /\ sessLog[2] = CallToolRequest("read_file", {})
    /\ messages[3].tool_call_id = "call_2"

\* C12: a query makes at most two LLM calls and at most one call_tool; the
\* second LLM call carries no tool schema, the text content of its
\* completion is the answer, and whatever that completion requests the
\* query is over: no further call_tool and no third LLM call
C12_TwoCallsAtMost ==
    /\ Len(llmLog) <= 2
    /\ CallToolCount <= 1
    /\ Len(llmLog) = 2 =>
         /\ ~llmLog[2].withTools
         /\ llmLog[2].tools = <<>>
         /\ llmLog[1].withTools
    /\ secondChoice # NoChoice =>
         /\ lastOutcome.kind = "answer"
         /\ lastOutcome.value = secondChoice.message.content
         /\ pc \in {"chat", "cleanup", "exited"}
         /\ Len(llmLog) = 2
         /\ CallToolCount = 1

C12_Witness ==
    /\ secondChoice.finish_reason = "tool_calls"
    /\ secondChoice.message.tool_calls = <<ToolCallA>>
    /\ secondChoice.message.content = <<"4">>
    /\ lastOutcome.value = <<"4">>
    /\ pc = "chat"

\* C13: when the argument blob of the first tool-call entry is not JSON,
\* the turn ends at the parse: one LLM call, no call_tool, no second LLM
\* call, the message list still holds the user message alone, and the error
\* is printed by chat_loop, which goes on reading input
C13_MalformedArguments ==
    (firstChoice.finish_reason = "tool_calls"
        /\ firstChoice.message.tool_calls # <<>>
        /\ firstChoice.message.tool_calls[1].function.arguments = BadBlob) =>
        /\ lastOutcome.kind = "error"
        /\ lastOutcome.exc = "JSONDecodeError"
        /\ Len(llmLog) = 1
        /\ sessLog = <<ListToolsRequest>>
        /\ toolReply = NoResult
        /\ Len(messages) = 1
        /\ messages[1].role = "user"
        /\ pc = "chat" \/ exitPath = "KeyboardInterrupt"
        /\ pc = "chat" => cleanupCalls = 0

C13_Witness ==
    /\ firstChoice.message.tool_calls = <<ToolCallBad>>
    /\ lastOutcome.exc = "JSONDecodeError"
    /\ pc = "chat"
    /\ failedTurns = 1

\* C14: a failed tool call is not retried: once call_tool has raised, the
\* turn has that one call_tool attempt and no second LLM call, and a
\* call_tool is only ever sent as the first one of a turn whose own first
\* completion requested a tool call
C14_NoRetry ==
    [][ /\ toolReply'.raised =>
             /\ CallToolCount' = 1
             /\ Len(llmLog') = 1
             /\ pc' \notin {"pq_call_tool", "pq_second_llm"}
        /\ CallToolCount' > CallToolCount =>
             /\ CallToolCount = 0
             /\ toolReply = NoResult
             /\ Len(llmLog) = 1
             /\ llmLog[1].messages = messages
             /\ firstChoice.finish_reason = "tool_calls" ]_vars

C14_Witness ==
    /\ toolReply.raised
    /\ turn = 2
    /\ CallToolCount = 1
    /\ Len(llmLog) = 1
    /\ pc = "chat"

SubmittedLists == {llmLog[i].messages : i \in DOMAIN llmLog}

\* C15: the message list is extended only after call_tool has returned, and
\* in every list submitted to the LLM a tool message directly follows the
\* assistant tool-call message it answers and carries the id of that
\* message's first entry; no submitted list has an assistant tool-call
\* message without its tool message or a tool message without its assistant
C15_PairedMessages ==
    /\ pc = "pq_call_tool" => Len(messages) = 1
    /\ \A L \in SubmittedLists :
         \A i \in DOMAIN L :
            /\ L[i].role = "tool" =>
                 /\ i > 1
                 /\ L[i - 1].role = "assistant"
                 /\ L[i - 1].tool_calls # <<>>
                 /\ L[i].tool_call_id = L[i - 1].tool_calls[1].id
            /\ (L[i].role = "assistant" /\ L[i].tool_calls # <<>>) =>
                 /\ i < Len(L)
                 /\ L[i + 1].role = "tool"

C15_Witness ==
    /\ Len(llmLog) = 2
    /\ llmLog[2].messages[2].tool_calls = <<ToolCallB, ToolCallA>>
    /\ llmLog[2].messages[3].role = "tool"
    /\ llmLog[2].messages[3].tool_call_id = "call_2"

\* C16: every list-tools and call-tool request is sent on a session whose
\* initialize handshake has succeeded and whose subprocess is live, before
\* cleanup; none is sent after cleanup or after a failed handshake
C16_LiveSession ==
    [][ (Len(sessLog') > Len(sessLog) \/ Len(connLog') > Len(connLog)) =>
          /\ session = "initialized"
          /\ subprocess.state = "live"
          /\ cleanupCalls = 0
          /\ exitPath = None ]_vars

C16_Witness ==
    /\ connLog = <<ListToolsRequest>>
    /\ Len(sessLog) = 2
    /\ sessLog[2].op = "call_tool"
    /\ session = "initialized"
    /\ pc = "pq_second_llm"

\* C17: chat_loop is left only by the quit word (or by an interrupt, which
\* is not a normal exit); a failed read of the input line is printed like a
\* query error and the loop is back at reading input with cleanup not
\* called, so a run whose reads all fail stays in chat_loop
C17_ReadErrorLoops ==
    [][ pc = "chat" =>
          \/ /\ pc' = "chat"
             /\ lastOutcome'.kind = "error"
             /\ lastOutcome'.exc = "EOFError"
             /\ cleanupCalls' = 0
             /\ exitPath' = None
          \/ /\ pc' = "pq_list_tools"
             /\ line' \notin QuitLines
          \/ /\ pc' = "cleanup"
             /\ exitPath' = "quit"
             /\ line' \in QuitLines
          \/ /\ pc' = "cleanup"
             /\ exitPath' = "KeyboardInterrupt" ]_vars

C17_Witness ==
    /\ lastOutcome.exc = "EOFError"
    /\ pc = "chat"
    /\ turn = 1
    /\ failedTurns = 1
    /\ cleanupCalls = 0

====
